---- MODULE Spec2Model ----
(***************************************************************************)
(* Attendance dashboard (app.py, analytics.py, graphs.py).                 *)
(*                                                                         *)
(* The stored file data/attendance.csv is a table: a header row and data   *)
(* rows.  Column headers are sequences of characters, so that the date     *)
(* parsing of datetime.strptime(col, '%Y-%m-%d') and the formatting of     *)
(* strftime('%Y-%m') / strftime('%A') are computed, not assumed.  Cell     *)
(* values are strings; pandas reads an empty field as the float NaN.       *)
(***************************************************************************)
EXTENDS Integers, Sequences, FiniteSets, TLC

\* file: data/attendance.csv; upl, view: the upload and view requests in
\* progress; resp: the last response or result; analytics: an
\* AttendanceAnalytics object in use; leaves: data/leaves.json; lreq: the
\* requests to /leave in progress; leave_log: the lines "New leave request
\* submitted for <name>" written by logger.info; cookie: the session cookie
\* the browser holds; users_db: the table users of users.db; sreq: the
\* requests of the browser in flight, each with the session Flask opened
\* from the cookie it was sent with.
VARIABLES file, upl, view, resp, analytics, leaves, lreq, leave_log,
          cookie, users_db, sreq

vars == <<file, upl, view, resp, analytics, leaves, lreq, leave_log,
          cookie, users_db, sreq>>

(***************************************************************************)
(* Bounds of the checked input space.                                      *)
(***************************************************************************)
MaxCols == 3

MaxValRows == 1

MaxDates == 2

MaxStudents == 2

MaxCells == 4

MaxUploads == 2

MaxCalls == 3

MaxLeaveThreads == 2

MaxLeaves == 2

MaxInFlight == 2

(***************************************************************************)
(* Column headers used as inputs.                                          *)
(***************************************************************************)
NameHdr == <<"N", "a", "m", "e">>

Mon0101 == <<"2", "0", "2", "4", "-", "0", "1", "-", "0", "1">>

Tue0102 == <<"2", "0", "2", "4", "-", "0", "1", "-", "0", "2">>

Mon0205 == <<"2", "0", "2", "4", "-", "0", "2", "-", "0", "5">>

SlashDate == <<"0", "1", "/", "0", "2", "/", "2", "0", "2", "4">>

Feb30 == <<"2", "0", "2", "4", "-", "0", "2", "-", "3", "0">>

DatePool == {Mon0101, Tue0102, Mon0205}

ValHeaderPool == {NameHdr, Mon0101, Mon0205, SlashDate, Feb30}

NamePool == {"Alice", "alice"}

IdPool == {"Alice", "alice", "Bob"}

DataCells == {"P", "p", "A", ""}

ValCells == {"P", "a", "", " ", "X"}

(***************************************************************************)
(* Python values.                                                          *)
(***************************************************************************)
NaN == "float('nan')"

NoFile == [exists |-> FALSE]

Raise(e) == [raised |-> TRUE, exc |-> e]

Return(v) == [raised |-> FALSE, val |-> v]

DigitChars == <<"0", "1", "2", "3", "4", "5", "6", "7", "8", "9">>

IsDigit(c) == \E i \in 1..10 : DigitChars[i] = c

DigitVal(c) == (CHOOSE i \in 1..10 : DigitChars[i] = c) - 1

\* str(x) of a cell value x: a string is itself, the float NaN prints as nan.
Str(x) == IF x = NaN THEN "nan" ELSE x

\* str.upper() on the strings that occur as cell values.
Upper(s) ==
    CASE s = "p" -> "P"
      [] s = "a" -> "A"
      [] s = "x" -> "X"
      [] s = "nan" -> "NAN"
      [] OTHER -> s

(***************************************************************************)
(* datetime.strptime(col, '%Y-%m-%d') and the two strftime formats.        *)
(***************************************************************************)
IsLeap(y) == (y % 4 = 0) /\ ((y % 100 # 0) \/ (y % 400 = 0))

DaysInMonth(y, m) ==
    CASE m \in {1, 3, 5, 7, 8, 10, 12} -> 31
      [] m \in {4, 6, 9, 11} -> 30
      [] OTHER -> IF IsLeap(y) THEN 29 ELSE 28

\* The characters the directive %m takes at position p: 1[0-2] | 0[1-9] | [1-9].
MonthLen(s, p) ==
    IF p + 1 <= Len(s) /\ s[p] = "1" /\ s[p + 1] \in {"0", "1", "2"} THEN 2
    ELSE IF p + 1 <= Len(s) /\ s[p] = "0" /\ IsDigit(s[p + 1]) /\ s[p + 1] # "0" THEN 2
    ELSE IF p <= Len(s) /\ IsDigit(s[p]) /\ s[p] # "0" THEN 1
    ELSE 0

\* The characters %d takes at position p: 3[01] | [12]\d | 0[1-9] | [1-9] | ' '[1-9].
DayLen(s, p) ==
    IF p + 1 <= Len(s) /\ s[p] = "3" /\ s[p + 1] \in {"0", "1"} THEN 2
    ELSE IF p + 1 <= Len(s) /\ s[p] \in {"1", "2"} /\ IsDigit(s[p + 1]) THEN 2
    ELSE IF p + 1 <= Len(s) /\ s[p] = "0" /\ IsDigit(s[p + 1]) /\ s[p + 1] # "0" THEN 2
    ELSE IF p <= Len(s) /\ IsDigit(s[p]) /\ s[p] # "0" THEN 1
    ELSE IF p + 1 <= Len(s) /\ s[p] = " " /\ IsDigit(s[p + 1]) /\ s[p + 1] # "0" THEN 2
    ELSE 0

NumVal(s, p, n) ==
    IF n = 1 THEN DigitVal(s[p])
    ELSE IF s[p] = " " THEN DigitVal(s[p + 1])
    ELSE 10 * DigitVal(s[p]) + DigitVal(s[p + 1])

strptime(s) ==
    IF ~(Len(s) >= 5 /\ (\A i \in 1..4 : IsDigit(s[i])) /\ s[5] = "-")
    THEN Raise("ValueError")
    ELSE LET ml == MonthLen(s, 6)
             q == 6 + ml
         IN IF ml = 0 \/ q > Len(s) \/ s[q] # "-"
            THEN Raise("ValueError")
            ELSE LET dl == DayLen(s, q + 1)
                 IN IF dl = 0 \/ q + dl # Len(s)
                    THEN Raise("ValueError")
                    ELSE LET y == 1000 * DigitVal(s[1]) + 100 * DigitVal(s[2])
                                    + 10 * DigitVal(s[3]) + DigitVal(s[4])
                             m == NumVal(s, 6, ml)
                             d == NumVal(s, q + 1, dl)
                         IN IF y < 1 \/ d > DaysInMonth(y, m)
                            THEN Raise("ValueError")
                            ELSE Return([year |-> y, month |-> m, day |-> d])

\* strftime('%Y-%m')
strftime_Ym(dt) ==
    <<DigitChars[((dt.year \div 1000) % 10) + 1], DigitChars[((dt.year \div 100) % 10) + 1],
      DigitChars[((dt.year \div 10) % 10) + 1], DigitChars[(dt.year % 10) + 1], "-",
      DigitChars[(dt.month \div 10) + 1], DigitChars[(dt.month % 10) + 1]>>

\* strftime('%Y-%m-%d')
strftime_Ymd(dt) ==
    strftime_Ym(dt) \o <<"-", DigitChars[(dt.day \div 10) + 1], DigitChars[(dt.day % 10) + 1]>>

RECURSIVE DaysBeforeMonth(_, _)
DaysBeforeMonth(y, m) ==
    IF m = 1 THEN 0 ELSE DaysBeforeMonth(y, m - 1) + DaysInMonth(y, m - 1)

toordinal(dt) ==
    LET y1 == dt.year - 1
    IN (y1 * 365) + (y1 \div 4) - (y1 \div 100) + (y1 \div 400)
       + DaysBeforeMonth(dt.year, dt.month) + dt.day

DayNames == <<"Monday", "Tuesday", "Wednesday", "Thursday", "Friday", "Saturday", "Sunday">>

\* strftime('%A')
strftime_A(dt) == DayNames[((toordinal(dt) + 6) % 7) + 1]

(***************************************************************************)
(* pd.read_csv: duplicate column names are renamed name.1, name.2, ...;    *)
(* an empty field is read as NaN; a file without a header line raises.     *)
(***************************************************************************)
Occurrences(h, i) == Cardinality({j \in 1..(i - 1) : h[j] = h[i]})

Mangle(h) ==
    [i \in 1..Len(h) |->
        IF Occurrences(h, i) = 0 THEN h[i]
        ELSE h[i] \o <<".", DigitChars[Occurrences(h, i) + 1]>>]

ReadCell(raw) == IF raw = "" THEN NaN ELSE raw

read_csv(f) ==
    IF ~f.exists THEN Raise("FileNotFoundError")
    ELSE IF Len(f.header) = 0 THEN Raise("EmptyDataError")
    ELSE Return([columns |-> Mangle(f.header),
                 rows |-> [r \in 1..Len(f.rows) |->
                              [c \in 1..Len(f.header) |-> ReadCell(f.rows[r][c])]]])

HasColumn(df, name) == \E c \in 1..Len(df.columns) : df.columns[c] = name

\* Variant: every column not named Name is taken for a date column.
date_columns_NotName(df) == {c \in 1..Len(df.columns) : df.columns[c] # NameHdr}

\* The date columns of the frame: df.columns[1:], as column positions.
date_columns(df) == 2..Len(df.columns)

\* The position at which a loop over the columns in order first meets one of
\* the positions in S, 0 if it meets none.
FirstIn(S) == IF S = {} THEN 0 ELSE CHOOSE x \in S : \A z \in S : x <= z

(***************************************************************************)
(* validate_csv (app.py)                                                   *)
(***************************************************************************)
Fail(kind, col) == [ok |-> FALSE, kind |-> kind, col |-> col]

InvalidValue(x) == Upper(Str(x)) \notin {"P", "A", ""}

\* Variant: the value check starts at the second date column.
ColumnHasInvalid_SkipFirst(df, c) ==
    c > 2 /\ \E r \in 1..Len(df.rows) : InvalidValue(df.rows[r][c])

ColumnHasInvalid(df, c) == \E r \in 1..Len(df.rows) : InvalidValue(df.rows[r][c])

BadDateColumn(df, c) == strptime(df.columns[c]).raised

\* Variant: the attendance values are checked before the date headers.
validate_csv_ValuesFirst(f) ==
    LET rd == read_csv(f)
    IN IF rd.raised THEN Fail("Error reading CSV file", <<>>)
       ELSE LET df == rd.val
                badDate == FirstIn({c \in date_columns(df) : BadDateColumn(df, c)})
                badVal == FirstIn({c \in date_columns(df) : ColumnHasInvalid(df, c)})
            IN IF ~HasColumn(df, NameHdr)
               THEN Fail("CSV file must contain a 'Name' column", <<>>)
               ELSE IF Len(df.columns) < 2
               THEN Fail("CSV file must contain at least one date column", <<>>)
               ELSE IF badVal # 0
               THEN Fail("Invalid attendance values in column", df.columns[badVal])
               ELSE IF badDate # 0
               THEN Fail("Invalid date format in column", df.columns[badDate])
               ELSE [ok |-> TRUE, kind |-> "None", col |-> <<>>]

validate_csv(f) ==
    LET rd == read_csv(f)
    IN IF rd.raised THEN Fail("Error reading CSV file", <<>>)
       ELSE LET df == rd.val
                badDate == FirstIn({c \in date_columns(df) : BadDateColumn(df, c)})
                badVal == FirstIn({c \in date_columns(df) : ColumnHasInvalid(df, c)})
            IN IF ~HasColumn(df, NameHdr)
               THEN Fail("CSV file must contain a 'Name' column", <<>>)
               ELSE IF Len(df.columns) < 2
               THEN Fail("CSV file must contain at least one date column", <<>>)
               ELSE IF badDate # 0
               THEN Fail("Invalid date format in column", df.columns[badDate])
               ELSE IF badVal # 0
               THEN Fail("Invalid attendance values in column", df.columns[badVal])
               ELSE [ok |-> TRUE, kind |-> "None", col |-> <<>>]

(***************************************************************************)
(* Numbers.  A rate present/total*100 is kept as the reduced fraction      *)
(* num/den, so that two rates are equal exactly when the quotients are.    *)
(***************************************************************************)
RECURSIVE GCD(_, _)
GCD(a, b) == IF b = 0 THEN a ELSE GCD(b, a % b)

Frac(n, d) == LET g == GCD(n, d) IN [num |-> n \div g, den |-> d \div g]

\* present/total*100
Rate(present, total) == Frac(100 * present, total)

(***************************************************************************)
(* Python dicts keep insertion order: a dict is a sequence of entries      *)
(* [key, val] with distinct keys; assigning to a present key keeps its     *)
(* position.                                                               *)
(***************************************************************************)
Keys(d) == {d[i].key : i \in 1..Len(d)}

KeyIndex(d, k) == CHOOSE i \in 1..Len(d) : d[i].key = k

DictGet(d, k) == d[KeyIndex(d, k)].val

DictSet(d, k, v) ==
    IF k \in Keys(d) THEN [d EXCEPT ![KeyIndex(d, k)].val = v]
    ELSE Append(d, [key |-> k, val |-> v])

(***************************************************************************)
(* AttendanceAnalytics (analytics.py)                                      *)
(***************************************************************************)
\* __init__: student_names = df['Name'], dates = df.columns[1:],
\* attendance_data = df.iloc[:, 1:].
AttendanceAnalytics(f) ==
    LET rd == read_csv(f)
    IN IF rd.raised THEN rd
       ELSE IF ~HasColumn(rd.val, NameHdr) THEN Raise("KeyError")
       ELSE LET df == rd.val
                nc == CHOOSE c \in 1..Len(df.columns) : df.columns[c] = NameHdr
            IN Return([student_names |-> [r \in 1..Len(df.rows) |-> df.rows[r][nc]],
                       dates |-> [j \in 1..(Len(df.columns) - 1) |-> df.columns[j + 1]],
                       attendance_data |->
                           [r \in 1..Len(df.rows) |->
                               [j \in 1..(Len(df.columns) - 1) |-> df.rows[r][j + 1]]]])

\* A column read from the file holds floats when it has rows and all of them
\* are empty; otherwise it holds objects.
ColumnIsFloat(an, j) ==
    /\ Len(an.student_names) > 0
    /\ \A r \in 1..Len(an.student_names) : an.attendance_data[r][j] = NaN

\* A row of attendance_data holds floats when every column does.
RowIsFloat(an) ==
    /\ Len(an.dates) > 0
    /\ \A j \in 1..Len(an.dates) : ColumnIsFloat(an, j)

\* x.str.upper() == 'P' on one element: NaN stays NaN and compares unequal.
IsP(x) == x # NaN /\ Upper(x) = "P"

\* Variant: the column is compared with 'P' without .str.upper().
ColumnPresent_NoUpper(an, j) ==
    Cardinality({r \in 1..Len(an.student_names) : an.attendance_data[r][j] = "P"})

\* sum(self.attendance_data[date].str.upper() == 'P')
ColumnPresent(an, j) ==
    Cardinality({r \in 1..Len(an.student_names) : IsP(an.attendance_data[r][j])})

\* Variant: the row is compared with 'P' without .str.upper().
RowPresent_NoUpper(an, idx) ==
    Cardinality({j \in 1..Len(an.dates) : an.attendance_data[idx][j] = "P"})

\* sum(attendance.str.upper() == 'P') for the row idx
RowPresent(an, idx) ==
    Cardinality({j \in 1..Len(an.dates) : IsP(an.attendance_data[idx][j])})

BucketKey(fmt, dt) == IF fmt = "%Y-%m" THEN strftime_Ym(dt) ELSE strftime_A(dt)

RECURSIVE bucket_loop(_, _, _, _)
\* The loop "for date in self.dates" of get_monthly_attendance and of
\* get_attendance_patterns, from date j on, with the dict built so far.
bucket_loop(an, fmt, j, stats) ==
    IF j > Len(an.dates) THEN Return(stats)
    ELSE LET dt == strptime(an.dates[j])
         IN IF dt.raised THEN dt
            ELSE IF ColumnIsFloat(an, j) THEN Raise("AttributeError")
            ELSE LET k == BucketKey(fmt, dt.val)
                     old == IF k \in Keys(stats) THEN DictGet(stats, k)
                            ELSE [present |-> 0, total |-> 0]
                 IN bucket_loop(an, fmt, j + 1,
                        DictSet(stats, k,
                            [present |-> old.present + ColumnPresent(an, j),
                             total |-> old.total + Len(an.student_names)]))

\* {key: stats['present']/stats['total']*100 for key, stats in d.items()}
bucket_rates(d) ==
    IF \E i \in 1..Len(d) : d[i].val.total = 0 THEN Raise("ZeroDivisionError")
    ELSE Return([i \in 1..Len(d) |->
                    [key |-> d[i].key, val |-> Rate(d[i].val.present, d[i].val.total)]])

get_monthly_attendance(an) ==
    LET st == bucket_loop(an, "%Y-%m", 1, <<>>)
    IN IF st.raised THEN st ELSE bucket_rates(st.val)

get_attendance_patterns(an) ==
    LET st == bucket_loop(an, "%A", 1, <<>>)
    IN IF st.raised THEN st ELSE bucket_rates(st.val)

RECURSIVE trends_loop(_, _, _)
trends_loop(an, idx, trends) ==
    IF idx > Len(an.student_names) THEN Return(trends)
    ELSE IF RowIsFloat(an) THEN Raise("AttributeError")
    ELSE IF Len(an.dates) = 0 THEN Raise("ZeroDivisionError")
    ELSE LET present_days == RowPresent(an, idx)
             total_days == Len(an.dates)
         IN trends_loop(an, idx + 1,
                DictSet(trends, an.student_names[idx],
                    [attendance_rate |-> Rate(present_days, total_days),
                     total_present |-> present_days,
                     total_absent |-> total_days - present_days]))

get_student_trends(an) == trends_loop(an, 1, <<>>)

LowerName(s) == IF s = "Alice" THEN "alice" ELSE s

\* Variant: the names are compared without regard to letter case.
student_index_IgnoreCase(an, student_name) ==
    FirstIn({idx \in 1..Len(an.student_names) :
                LowerName(an.student_names[idx]) = LowerName(student_name)})

\* The loop that looks the student up: the first row with that name, 0 if none.
student_index(an, student_name) ==
    FirstIn({idx \in 1..Len(an.student_names) : an.student_names[idx] = student_name})

RECURSIVE performance_loop(_, _, _, _)
\* The loop "for date in self.dates" that fills monthly_performance.
performance_loop(an, idx, j, perf) ==
    IF j > Len(an.dates) THEN Return(perf)
    ELSE LET dt == strptime(an.dates[j])
         IN IF dt.raised THEN dt
            ELSE IF an.attendance_data[idx][j] = NaN THEN Raise("AttributeError")
            ELSE LET k == strftime_Ym(dt.val)
                     old == IF k \in Keys(perf) THEN DictGet(perf, k)
                            ELSE [present |-> 0, total |-> 0]
                 IN performance_loop(an, idx, j + 1,
                        DictSet(perf, k,
                            [present |-> old.present
                                 + (IF Upper(an.attendance_data[idx][j]) = "P" THEN 1 ELSE 0),
                             total |-> old.total + 1]))

NoneValue == [none |-> TRUE]

get_student_data(an, student_name) ==
    LET student_idx == student_index(an, student_name)
    IN IF student_idx = 0 THEN Return(NoneValue)
       ELSE IF RowIsFloat(an) THEN Raise("AttributeError")
       ELSE IF Len(an.dates) = 0 THEN Raise("ZeroDivisionError")
       ELSE LET present_days == RowPresent(an, student_idx)
                total_days == Len(an.dates)
                perf == performance_loop(an, student_idx, 1, <<>>)
            IN IF perf.raised THEN perf
               ELSE Return(
                   [none |-> FALSE,
                    name |-> student_name,
                    attendance_rate |-> Rate(present_days, total_days),
                    total_present |-> present_days,
                    total_absent |-> total_days - present_days,
                    attendance_calendar |->
                        [j \in 1..Len(an.dates) |->
                            [key |-> an.dates[j], val |-> an.attendance_data[student_idx][j]]],
                    monthly_performance |->
                        [i \in 1..Len(perf.val) |->
                            [key |-> perf.val[i].key,
                             val |-> [present |-> perf.val[i].val.present,
                                      total |-> perf.val[i].val.total,
                                      rate |-> Rate(perf.val[i].val.present,
                                                    perf.val[i].val.total),
                                      absent |-> perf.val[i].val.total
                                                    - perf.val[i].val.present]]]])

FracAdd(a, b) == Frac(a.num * b.den + b.num * a.den, a.den * b.den)

FracLess(a, b) == a.num * b.den < b.num * a.den

RECURSIVE FracSum(_)
FracSum(xs) == IF Len(xs) = 0 THEN Frac(0, 1) ELSE FracAdd(Head(xs), FracSum(Tail(xs)))

NaNValue == [nan |-> TRUE]

\* round(x, digits) of the fraction x, as the integer x * scale rounded half to
\* even (scale = 10^digits).
RoundScaled(x, scale) ==
    LET n == x.num * scale
        q == n \div x.den
        r == n % x.den
    IN IF 2 * r > x.den \/ (2 * r = x.den /\ q % 2 = 1) THEN q + 1 ELSE q

\* np.mean(list): NaN for the empty list.
np_mean(xs) ==
    IF Len(xs) = 0 THEN NaNValue
    ELSE LET t == FracSum(xs) IN Frac(t.num, t.den * Len(xs))

\* max(d.items(), key=lambda x: x[1])[0]: the first entry no other exceeds.
max_key_LastTie(d) ==
    d[Len(d) + 1
        - FirstIn({i \in 1..Len(d) :
                     \A k \in 1..Len(d) : ~FracLess(d[Len(d) + 1 - i].val, d[k].val)})].key

max_key(d) ==
    d[FirstIn({i \in 1..Len(d) : \A k \in 1..Len(d) : ~FracLess(d[i].val, d[k].val)})].key

\* min(d.items(), key=lambda x: x[1])[0]: the first entry no other is below.
min_key(d) ==
    d[FirstIn({i \in 1..Len(d) : \A k \in 1..Len(d) : ~FracLess(d[k].val, d[i].val)})].key

\* The dictionary get_summary_statistics returns, from the results of the three
\* methods it calls (in the order the dictionary literal evaluates them).
summary_dict(an, student_trends, monthly_stats, day_patterns) ==
    IF student_trends.raised THEN student_trends
    ELSE IF monthly_stats.raised THEN monthly_stats
    ELSE IF day_patterns.raised THEN day_patterns
    ELSE IF Len(day_patterns.val) = 0 THEN Raise("ValueError")
    ELSE Return(
        [total_students |-> Len(an.student_names),
         average_attendance |->
             np_mean([i \in 1..Len(student_trends.val) |->
                         student_trends.val[i].val.attendance_rate]),
         monthly_stats |-> monthly_stats.val,
         day_patterns |-> day_patterns.val,
         student_trends |-> student_trends.val,
         most_consistent_day |-> max_key(day_patterns.val),
         least_consistent_day |-> min_key(day_patterns.val),
         best_month |-> max_key(monthly_stats.val),
         worst_month |-> min_key(monthly_stats.val)])

get_summary_statistics(an) ==
    summary_dict(an, get_student_trends(an), get_monthly_attendance(an),
                 get_attendance_patterns(an))

\* generate_enhanced_graphs: the charts are files under static/ and are not
\* part of the state; what matters is whether the method raises.  The first
\* statement calls val.upper() on every cell.
generate_enhanced_graphs(an) ==
    IF \E r \in 1..Len(an.student_names) : \E j \in 1..Len(an.dates) :
           an.attendance_data[r][j] = NaN
    THEN Raise("AttributeError")
    ELSE LET monthly_stats == get_monthly_attendance(an)
             day_patterns == get_attendance_patterns(an)
         IN IF monthly_stats.raised THEN monthly_stats
            ELSE IF day_patterns.raised THEN day_patterns
            ELSE Return(NoneValue)

(***************************************************************************)
(* app.py: helpers of the routes                                           *)
(***************************************************************************)
LowerChar(c) ==
    CASE c = "C" -> "c"
      [] c = "S" -> "s"
      [] c = "V" -> "v"
      [] OTHER -> c

\* "." in filename and filename.rsplit(".", 1)[1].lower() in ALLOWED_EXTENSIONS
allowed_file(filename) ==
    /\ \E i \in 1..Len(filename) : filename[i] = "."
    /\ LET dot == CHOOSE i \in 1..Len(filename) :
                      /\ filename[i] = "."
                      /\ \A k \in (i + 1)..Len(filename) : filename[k] # "."
           ext == SubSeq(filename, dot + 1, Len(filename))
       IN [i \in 1..Len(ext) |-> LowerChar(ext[i])] = <<"c", "s", "v">>

\* The generate_graphs_and_stats that index calls is the one app.py defines
\* itself (it replaces the imported one): the summary table per student, or
\* None when anything raises.  Defined for files with at least one data row.
generate_graphs_and_stats(f) ==
    LET rd == read_csv(f)
    IN IF rd.raised \/ ~HasColumn(rd.val, NameHdr) THEN NoneValue
       ELSE LET df == rd.val
                nc == CHOOSE c \in 1..Len(df.columns) : df.columns[c] = NameHdr
                cols == (1..Len(df.columns)) \ {nc}
                present(r) == Cardinality({c \in cols : Upper(Str(df.rows[r][c])) = "P"})
            IN [none |-> FALSE,
                summary |-> [r \in 1..Len(df.rows) |->
                                [name |-> df.rows[r][nc],
                                 present_days |-> present(r),
                                 absent_days |-> Cardinality(cols) - present(r),
                                 attendance_pct |->
                                     IF cols = {} THEN NaNValue
                                     ELSE [hundredths |->
                                              RoundScaled(Rate(present(r), Cardinality(cols)),
                                                          100)]]]]

(***************************************************************************)
(* graphs.py                                                               *)
(***************************************************************************)
RECURSIVE insert_desc(_, _)
\* Places the item x in the listing xs, sorted by attendance_rate descending,
\* after every item whose rate is not below its own.
insert_desc(xs, x) ==
    IF Len(xs) = 0 THEN <<x>>
    ELSE IF FracLess(Head(xs).val.attendance_rate, x.val.attendance_rate)
    THEN <<x>> \o xs
    ELSE <<Head(xs)>> \o insert_desc(Tail(xs), x)

RECURSIVE sorted_loop(_, _, _)
sorted_loop(items, i, acc) ==
    IF i > Len(items) THEN acc ELSE sorted_loop(items, i + 1, insert_desc(acc, items[i]))

\* sorted(student_trends.items(), key=lambda x: x[1]['attendance_rate'],
\* reverse=True): a stable sort, items of equal rate keep the order of the dict.
sorted_students(student_trends) == sorted_loop(student_trends, 1, <<>>)

\* [(name, data['attendance_rate']) for name, data in items]
name_rate(items) ==
    [i \in 1..Len(items) |-> [name |-> items[i].key, rate |-> items[i].val.attendance_rate]]

\* The rest of generate_graphs_and_stats of graphs.py once the statistics
\* are there: None for an empty student_trends, else top_3 and bottom_3.
add_top_bottom(stats) ==
    IF stats.raised \/ Len(stats.val.student_trends) = 0 THEN NoneValue
    ELSE LET s3 == sorted_students(stats.val.student_trends)
             n == Len(s3)
         IN [none |-> FALSE,
             stats |-> stats.val,
             top_3 |-> name_rate(SubSeq(s3, 1, IF n < 3 THEN n ELSE 3)),
             bottom_3 |-> name_rate(SubSeq(s3, IF n < 3 THEN 1 ELSE n - 2, n))]

\* generate_graphs_and_stats of graphs.py (app.py imports it and then defines
\* a function of the same name, so the routes do not call this one): None
\* when the constructor, the graphs or the statistics raise.
graphs_generate_graphs_and_stats(f) ==
    LET an == AttendanceAnalytics(f)
    IN IF an.raised THEN NoneValue
       ELSE IF generate_enhanced_graphs(an.val).raised THEN NoneValue
       ELSE add_top_bottom(get_summary_statistics(an.val))

(***************************************************************************)
(* Input tables.                                                           *)
(***************************************************************************)
Table(h, rs) == [exists |-> TRUE, header |-> h, rows |-> rs]

\* A data row under the header h: a name, then one cell per further column.
RowSet(h, names, cells) == {<<nm>> \o cs : nm \in names, cs \in [1..(Len(h) - 1) -> cells]}

\* Arbitrary headers, few rows, at most MaxCells attendance cells: the inputs
\* of validation.
IsValTable(f) ==
    \E k \in 0..MaxCols : \E h \in [1..k -> ValHeaderPool] :
        \E n \in {m \in 0..MaxValRows : k > 0 /\ m * (k - 1) <= MaxCells} \cup {0} :
            \E rs \in [1..n -> RowSet(h, {"Alice"}, ValCells)] : f = Table(h, rs)

Injective(s) == \A i, j \in 1..Len(s) : s[i] = s[j] => i = j

\* Well-formed headers (Name, then distinct dates), at most MaxCells attendance
\* cells: the inputs of the analytics.
IsDataTable(f) ==
    \E k \in 0..MaxDates : \E ds \in [1..k -> DatePool] :
        /\ Injective(ds)
        /\ \E n \in {m \in 0..MaxStudents : m * k <= MaxCells} :
              \E rs \in [1..n -> RowSet(<<NameHdr>> \o ds, NamePool, DataCells)] :
                  f = Table(<<NameHdr>> \o ds, rs)

NoResp == [op |-> "none"]

(***************************************************************************)
(* The web application.  Requests run in threads of the server, so the     *)
(* file operations of different requests interleave.  An upload (POST /)   *)
(* is the steps save, validate, then remove or generate; a view request is *)
(* the os.path.exists test and then the load of the file.                  *)
(***************************************************************************)
GoodTable == Table(<<NameHdr, Mon0101>>, <<<<"Alice", "P">>>>)

BadCellTable == Table(<<NameHdr, Mon0101>>, <<<<"Alice", "X">>>>)

UploadPool == {GoodTable, BadCellTable}

CsvName == <<"a", ".", "C", "S", "V">>

FilenamePool == {<<>>, CsvName, <<"a", ".", "t", "x", "t">>}

UploadIds == 1..MaxUploads

ViewRequests ==
    {[kind |-> "dashboard"], [kind |-> "calendar_view"], [kind |-> "index"]}
    \cup {[kind |-> "enhancement_details", arg |-> t] : t \in {"monthly_trend", "other"}}
    \cup {[kind |-> "student", arg |-> n] : n \in {"Alice", "Bob"}}

Idle == [pc |-> "idle"]

Init ==
    /\ file = NoFile
    /\ upl = [u \in UploadIds |-> Idle]
    /\ view = Idle
    /\ resp = NoResp
    /\ analytics = NoneValue
    /\ leaves = NoFile
    /\ lreq = <<>>
    /\ leave_log = <<>>
    /\ cookie = <<>>
    /\ users_db = <<>>
    /\ sreq = <<>>

Redirect(op, to, flash) == [op |-> op, status |-> "redirect", to |-> to, flash |-> flash]

\* POST / without a usable file: no file part, an empty filename, or a
\* filename that allowed_file refuses.
index_post_rejected(has_file, filename) ==
    /\ ~has_file \/ filename = <<>> \/ ~allowed_file(filename)
    /\ resp' = IF ~has_file THEN Redirect("index", "index", "No file part")
               ELSE IF filename = <<>> THEN Redirect("index", "index", "No file selected")
               ELSE [op |-> "index", status |-> "render", stats |-> NoneValue,
                     flash |-> "Only CSV files are allowed."]
    /\ UNCHANGED <<file, upl, view, analytics, leaves, lreq, leave_log, cookie, users_db, sreq>>

\* file.save(filepath): the upload overwrites data/attendance.csv.
index_save(u, filename, t) ==
    /\ upl[u].pc = "idle"
    /\ filename # <<>> /\ allowed_file(filename)
    /\ file' = t
    /\ upl' = [upl EXCEPT ![u] = [pc |-> "saved", table |-> t]]
    /\ UNCHANGED <<view, resp, analytics, leaves, lreq, leave_log, cookie, users_db, sreq>>

\* is_valid, error_message = validate_csv(filepath), on the file as it is now.
index_validate(u) ==
    /\ upl[u].pc = "saved"
    /\ upl' = [upl EXCEPT ![u] = [pc |-> IF validate_csv(file).ok THEN "valid" ELSE "invalid",
                                  table |-> upl[u].table,
                                  error_message |-> validate_csv(file).kind]]
    /\ UNCHANGED <<file, view, resp, analytics, leaves, lreq, leave_log, cookie, users_db, sreq>>

\* if os.path.exists(filepath): ... else: return redirect(request.url)
index_exists(u) ==
    /\ upl[u].pc = "invalid"
    /\ IF file.exists
       THEN /\ upl' = [upl EXCEPT ![u].pc = "removing"]
            /\ UNCHANGED resp
       ELSE /\ upl' = [upl EXCEPT ![u] = Idle]
            /\ resp' = Redirect("index", "index", upl[u].error_message)
    /\ UNCHANGED <<file, view, analytics, leaves, lreq, leave_log, cookie, users_db, sreq>>

\* os.remove(filepath); return redirect(request.url).  os.remove raises when
\* another request removed the file after the exists test.
index_remove(u) ==
    /\ upl[u].pc = "removing"
    /\ IF file.exists
       THEN /\ file' = NoFile
            /\ resp' = Redirect("index", "index", upl[u].error_message)
       ELSE /\ file' = file
            /\ resp' = [op |-> "index", status |-> "error 500"]
    /\ upl' = [upl EXCEPT ![u] = Idle]
    /\ UNCHANGED <<view, analytics, leaves, lreq, leave_log, cookie, users_db, sreq>>

\* stats = generate_graphs_and_stats(filepath), on the file as it is now.
index_generate(u) ==
    /\ upl[u].pc = "valid"
    /\ LET stats == generate_graphs_and_stats(file)
       IN resp' = IF stats.none
                  THEN Redirect("index", "index", "Error: Could not process attendance data")
                  ELSE [op |-> "index", status |-> "render", stats |-> stats,
                        flash |-> "CSV uploaded and graphs updated successfully!"]
    /\ upl' = [upl EXCEPT ![u] = Idle]
    /\ UNCHANGED <<file, view, analytics, leaves, lreq, leave_log, cookie, users_db, sreq>>

\* The os.path.exists test that opens dashboard, enhancement_details,
\* student, calendar_view and GET /?data=loaded.
view_exists(v) ==
    /\ view.pc = "idle"
    /\ IF file.exists
       THEN /\ view' = [pc |-> "checked", req |-> v]
            /\ UNCHANGED resp
       ELSE /\ view' = Idle
            /\ resp' = IF v.kind = "index"
                       THEN [op |-> "index", status |-> "render", stats |-> NoneValue,
                             loaded |-> NoFile]
                       ELSE [op |-> v.kind, status |-> "redirect", to |-> "index",
                             flash |-> "Please upload attendance data first",
                             loaded |-> NoFile]
    /\ UNCHANGED <<file, upl, analytics, leaves, lreq, leave_log, cookie, users_db, sreq>>

\* What a page was computed from: the file read, NoFile when the read failed.
Loaded(f) == IF read_csv(f).raised THEN NoFile ELSE f

ViewRedirect(kind, to, f) ==
    [op |-> kind, status |-> "redirect", to |-> to, loaded |-> Loaded(f)]

dashboard(f) ==
    LET an == AttendanceAnalytics(f)
    IN IF an.raised THEN ViewRedirect("dashboard", "index", f)
       ELSE IF generate_enhanced_graphs(an.val).raised
       THEN ViewRedirect("dashboard", "index", f)
       ELSE LET stats == get_summary_statistics(an.val)
            IN IF stats.raised THEN ViewRedirect("dashboard", "index", f)
               ELSE [op |-> "dashboard", status |-> "render", stats |-> stats.val,
                     loaded |-> f]

enhancement_details(f, enhancement_type) ==
    LET an == AttendanceAnalytics(f)
    IN IF an.raised THEN ViewRedirect("enhancement_details", "dashboard", f)
       ELSE LET stats == get_summary_statistics(an.val)
            IN IF stats.raised THEN ViewRedirect("enhancement_details", "dashboard", f)
               ELSE IF enhancement_type \notin {"monthly_trend", "day_pattern", "heatmap"}
               THEN ViewRedirect("enhancement_details", "dashboard", f)
               ELSE [op |-> "enhancement_details", status |-> "render",
                     enhancement_data |->
                         IF enhancement_type = "monthly_trend" THEN stats.val.monthly_stats
                         ELSE IF enhancement_type = "day_pattern" THEN stats.val.day_patterns
                         ELSE NoneValue,
                     loaded |-> f]

student(f, student_name) ==
    LET an == AttendanceAnalytics(f)
    IN IF an.raised THEN ViewRedirect("student", "index", f)
       ELSE LET student_data == get_student_data(an.val, student_name)
            IN IF student_data.raised THEN ViewRedirect("student", "index", f)
               ELSE IF student_data.val.none
               THEN [op |-> "student", status |-> "redirect", to |-> "index",
                     flash |-> "Student not found", loaded |-> f]
               ELSE [op |-> "student", status |-> "render",
                     student_data |-> student_data.val, loaded |-> f]

\* sum() of a column of the frame and the division that follows: a column of
\* floats (all cells empty) sums to 0.0; a column holding a string makes the
\* sum or the division raise TypeError; without rows 0/0 raises.
calendar_entry(df, c) ==
    IF strptime(df.columns[c]).raised THEN Raise("ValueError")
    ELSE IF Len(df.rows) = 0 THEN Raise("ZeroDivisionError")
    ELSE IF \E r \in 1..Len(df.rows) : df.rows[r][c] # NaN THEN Raise("TypeError")
    ELSE Return([attendance_percentage |-> [tenths |-> RoundScaled(Rate(0, Len(df.rows)), 10)],
                 present_count |-> 0,
                 total_students |-> Len(df.rows)])

RECURSIVE calendar_loop(_, _, _)
\* for date_col in date_columns: try ... except: continue
calendar_loop(df, c, calendar_data) ==
    IF c > Len(df.columns) THEN calendar_data
    ELSE calendar_loop(df, c + 1,
             IF calendar_entry(df, c).raised THEN calendar_data
             ELSE DictSet(calendar_data, strftime_Ymd(strptime(df.columns[c]).val),
                          calendar_entry(df, c).val))

calendar_view(f) ==
    LET rd == read_csv(f)
    IN IF rd.raised THEN ViewRedirect("calendar_view", "index", f)
       ELSE [op |-> "calendar_view", status |-> "render",
             calendar_data |-> calendar_loop(rd.val, 2, <<>>), loaded |-> f]

\* GET /?data=loaded
index_loaded(f) ==
    LET stats == generate_graphs_and_stats(f)
    IN IF stats.none THEN ViewRedirect("index", "index", f)
       ELSE [op |-> "index", status |-> "render", stats |-> stats, loaded |-> f]

ViewResponse(v, f) ==
    CASE v.kind = "dashboard" -> dashboard(f)
      [] v.kind = "enhancement_details" -> enhancement_details(f, v.arg)
      [] v.kind = "student" -> student(f, v.arg)
      [] v.kind = "calendar_view" -> calendar_view(f)
      [] v.kind = "index" -> index_loaded(f)

\* The body of the view after the exists test, on the file as it is now.
view_load ==
    /\ view.pc = "checked"
    /\ resp' = ViewResponse(view.req, file)
    /\ view' = Idle
    /\ UNCHANGED <<file, upl, analytics, leaves, lreq, leave_log, cookie, users_db, sreq>>

Next ==
    \/ \E has_file \in BOOLEAN, filename \in FilenamePool :
           index_post_rejected(has_file, filename)
    \/ \E u \in UploadIds, filename \in FilenamePool, t \in UploadPool :
           index_save(u, filename, t)
    \/ \E u \in UploadIds : index_validate(u)
    \/ \E u \in UploadIds : index_exists(u)
    \/ \E u \in UploadIds : index_remove(u)
    \/ \E u \in UploadIds : index_generate(u)
    \/ \E v \in ViewRequests : view_exists(v)
    \/ view_load

Spec == Init /\ [][Next]_vars


(***************************************************************************)
(* Sequential use.  Every request builds its own AttendanceAnalytics from   *)
(* the stored file, so a behaviour is one stored file and one call on it.  *)
(***************************************************************************)
InitFn ==
    /\ IsValTable(file) \/ IsDataTable(file)
    /\ upl = <<>>
    /\ view = <<>>
    /\ resp = NoResp
    /\ analytics = NoneValue
    /\ leaves = NoFile
    /\ lreq = <<>>
    /\ leave_log = <<>>
    /\ cookie = <<>>
    /\ users_db = <<>>
    /\ sreq = <<>>

call_validate_csv ==
    /\ resp = NoResp
    /\ resp' = [op |-> "validate_csv", res |-> validate_csv(file)]
    /\ UNCHANGED <<file, upl, view, analytics, leaves, lreq, leave_log, cookie, users_db, sreq>>

\* In each call below: analytics = AttendanceAnalytics(filepath), then the method.
call_get_monthly_attendance ==
    /\ resp = NoResp
    /\ resp' = [op |-> "get_monthly_attendance",
                res |-> LET an == AttendanceAnalytics(file)
                        IN IF an.raised THEN an ELSE get_monthly_attendance(an.val)]
    /\ UNCHANGED <<file, upl, view, analytics, leaves, lreq, leave_log, cookie, users_db, sreq>>

call_get_attendance_patterns ==
    /\ resp = NoResp
    /\ resp' = [op |-> "get_attendance_patterns",
                res |-> LET an == AttendanceAnalytics(file)
                        IN IF an.raised THEN an ELSE get_attendance_patterns(an.val)]
    /\ UNCHANGED <<file, upl, view, analytics, leaves, lreq, leave_log, cookie, users_db, sreq>>

call_get_student_trends ==
    /\ resp = NoResp
    /\ resp' = [op |-> "get_student_trends",
                res |-> LET an == AttendanceAnalytics(file)
                        IN IF an.raised THEN an ELSE get_student_trends(an.val)]
    /\ UNCHANGED <<file, upl, view, analytics, leaves, lreq, leave_log, cookie, users_db, sreq>>

call_get_student_data(student_name) ==
    /\ resp = NoResp
    /\ resp' = [op |-> "get_student_data", arg |-> student_name,
                res |-> LET an == AttendanceAnalytics(file)
                        IN IF an.raised THEN an
                           ELSE get_student_data(an.val, student_name)]
    /\ UNCHANGED <<file, upl, view, analytics, leaves, lreq, leave_log, cookie, users_db, sreq>>

call_get_summary_statistics ==
    /\ resp = NoResp
    /\ resp' = [op |-> "get_summary_statistics",
                res |-> LET an == AttendanceAnalytics(file)
                        IN IF an.raised THEN an ELSE get_summary_statistics(an.val)]
    /\ UNCHANGED <<file, upl, view, analytics, leaves, lreq, leave_log, cookie, users_db, sreq>>

call_graphs_generate_graphs_and_stats ==
    /\ resp = NoResp
    /\ resp' = [op |-> "graphs.generate_graphs_and_stats",
                res |-> graphs_generate_graphs_and_stats(file)]
    /\ UNCHANGED <<file, upl, view, analytics, leaves, lreq, leave_log, cookie, users_db, sreq>>

\* GET /student/<student_name> with the file in place.
route_student(student_name) ==
    /\ resp = NoResp
    /\ file.exists
    /\ resp' = [student(file, student_name) EXCEPT !.op = "route student"]
                  @@ [arg |-> student_name]
    /\ UNCHANGED <<file, upl, view, analytics, leaves, lreq, leave_log, cookie, users_db, sreq>>

\* GET /calendar with the file in place.
route_calendar_view ==
    /\ resp = NoResp
    /\ file.exists
    /\ resp' = [calendar_view(file) EXCEPT !.op = "route calendar_view"]
    /\ UNCHANGED <<file, upl, view, analytics, leaves, lreq, leave_log, cookie, users_db, sreq>>

NextFn ==
    \/ call_validate_csv
    \/ call_get_monthly_attendance
    \/ call_get_attendance_patterns
    \/ call_get_student_trends
    \/ call_get_summary_statistics
    \/ call_graphs_generate_graphs_and_stats
    \/ \E id \in IdPool : call_get_student_data(id)
    \/ \E id \in IdPool : route_student(id)
    \/ route_calendar_view

SpecFn == InitFn /\ [][NextFn]_vars

(***************************************************************************)
(* One AttendanceAnalytics object, used for several calls in a row (as     *)
(* dashboard does: generate_enhanced_graphs, then get_summary_statistics   *)
(* and the three methods it calls).                                        *)
(***************************************************************************)
Methods ==
    {"get_monthly_attendance", "get_attendance_patterns", "get_student_trends",
     "get_student_data", "generate_enhanced_graphs", "get_summary_statistics"}

\* The return value (or exception) of the method m of the object an.
invoke(an, m, arg) ==
    CASE m = "get_monthly_attendance" -> get_monthly_attendance(an)
      [] m = "get_attendance_patterns" -> get_attendance_patterns(an)
      [] m = "get_student_trends" -> get_student_trends(an)
      [] m = "get_student_data" -> get_student_data(an, arg)
      [] m = "generate_enhanced_graphs" -> generate_enhanced_graphs(an)
      [] m = "get_summary_statistics" -> get_summary_statistics(an)

\* Variant: generate_enhanced_graphs normalises the cells to upper case in
\* place (self.attendance_data = ...applymap(str.upper)).
self_after_UpperInPlace(an, m) ==
    IF m = "generate_enhanced_graphs"
    THEN [an EXCEPT !.attendance_data =
             [r \in 1..Len(an.attendance_data) |->
                 [j \in 1..Len(an.attendance_data[r]) |->
                     IF an.attendance_data[r][j] = NaN THEN NaN
                     ELSE Upper(an.attendance_data[r][j])]]]
    ELSE an

\* The object after the method m ran: no method assigns to an attribute of
\* self or writes into a frame (.str.upper(), .iloc[idx], .apply and .applymap
\* build new values; the dicts the loops update are locals; the files
\* generate_enhanced_graphs writes are under static/).
self_after(an, m) == an

InitObj ==
    /\ IsDataTable(file)
    /\ analytics = AttendanceAnalytics(file).val
    /\ upl = <<>>
    /\ view = <<>>
    /\ resp = NoResp
    /\ leaves = NoFile
    /\ lreq = <<>>
    /\ leave_log = <<>>
    /\ cookie = <<>>
    /\ users_db = <<>>
    /\ sreq = <<>>

Calls == IF resp = NoResp THEN 0 ELSE resp.calls

\* analytics.<m>(arg), whether it returns or raises.
obj_call(m, arg) ==
    /\ Calls < MaxCalls
    /\ resp' = [op |-> m, arg |-> IF m = "get_student_data" THEN arg ELSE "",
                res |-> invoke(analytics, m, arg), calls |-> Calls + 1]
    /\ analytics' = self_after(analytics, m)
    /\ UNCHANGED <<file, upl, view, leaves, lreq, leave_log, cookie, users_db, sreq>>

NextObj ==
    \/ \E m \in Methods \ {"get_student_data"} : obj_call(m, "")
    \/ \E student_name \in IdPool : obj_call("get_student_data", student_name)

SpecObj == InitObj /\ [][NextObj]_vars

(***************************************************************************)
(* The leave workflow (route leave of app.py) on data/leaves.json.  A      *)
(* request is two steps on the file: the load (os.path.exists, json.load)  *)
(* and the write (open(..., 'w'), json.dump); requests run in threads of   *)
(* the server, so the steps of different requests interleave.              *)
(***************************************************************************)
\* request.form.get(...) of a field the form does not hold.
PyNone == "<None>"

LeaveNames == {"Alice", PyNone}

LeaveDates == {"2024-03-01", "2024-03-02"}

LeaveActions == {"submit", "approve", "reject"}

LeaveForms ==
    [action : LeaveActions, student_name : LeaveNames, leave_date : LeaveDates,
     leave_type : {"sick"}, reason : {"flu"}]

LeaveIds == 1..MaxLeaveThreads

\* json.dump of a dict: the items in order, every key as a JSON string (the
\* key None is written "null"); keys are not merged.
json_dump(d) ==
    [i \in 1..Len(d) |-> [key |-> IF d[i].key = PyNone THEN "null" ELSE d[i].key,
                          val |-> d[i].val]]

RECURSIVE json_load_loop(_, _, _)
json_load_loop(text, i, d) ==
    IF i > Len(text) THEN d
    ELSE json_load_loop(text, i + 1, DictSet(d, text[i].key, text[i].val))

\* json.load: a dict; of a key written twice the last value stays.
json_load(text) == json_load_loop(text, 1, <<>>)

\* for leave in leaves[student_name]: if leave["date"] == leave_date:
\*     leave["status"] = ...; break
set_status(requests, leave_date, status) ==
    LET hits == {i \in 1..Len(requests) : requests[i].date = leave_date}
    IN IF hits = {} THEN requests
       ELSE [requests EXCEPT ![FirstIn(hits)].status = status]

\* The dict a submission writes back.
submitted(d, form) ==
    LET d1 == IF form.student_name \in Keys(d) THEN d
              ELSE Append(d, [key |-> form.student_name, val |-> <<>>])
    IN DictSet(d1, form.student_name,
               Append(DictGet(d1, form.student_name),
                      [date |-> form.leave_date, type |-> form.leave_type,
                       reason |-> form.reason, status |-> "pending"]))

\* The dict an approve or reject writes back.
decided(d, form) ==
    DictSet(d, form.student_name,
            set_status(DictGet(d, form.student_name), form.leave_date,
                       IF form.action = "approve" THEN "approved" ELSE "rejected"))

LeaveRedirect(flash) == [op |-> "leave", status |-> "redirect", to |-> "leave", flash |-> flash]

\* The requests stored or about to be stored: the bound of the submissions.
LeavesInSystem ==
    Cardinality({t \in LeaveIds : lreq[t].pc = "loaded" /\ lreq[t].form.action = "submit"})
        + Len(leave_log)

InitLeave ==
    /\ file = NoFile
    /\ upl = <<>>
    /\ view = <<>>
    /\ resp = NoResp
    /\ analytics = NoneValue
    /\ leaves = NoFile
    /\ lreq = [t \in LeaveIds |-> Idle]
    /\ leave_log = <<>>
    /\ cookie = <<>>
    /\ users_db = <<>>
    /\ sreq = <<>>

\* Another request is between its load and the end of its write.
Rewriting(t) == \E o \in LeaveIds \ {t} : lreq[o].pc = "loaded"

\* POST /leave up to the point where the file is opened for writing.
leave_load(t, form) ==
    /\ lreq[t].pc = "idle"
    /\ form.action = "submit" => LeavesInSystem < MaxLeaves
    /\ IF ~leaves.exists /\ form.action # "submit"
       THEN /\ lreq' = lreq
            /\ resp' = LeaveRedirect("")
       ELSE LET d == IF leaves.exists THEN json_load(leaves.text) ELSE <<>>
            IN IF form.action # "submit" /\ form.student_name \notin Keys(d)
               THEN /\ lreq' = lreq
                    /\ resp' = LeaveRedirect("")
               ELSE /\ lreq' = [lreq EXCEPT ![t] =
                                   [pc |-> "loaded", form |-> form,
                                    leaves |-> IF form.action = "submit"
                                               THEN submitted(d, form)
                                               ELSE decided(d, form)]]
                    /\ resp' = resp
    /\ UNCHANGED <<file, upl, view, analytics, leaves, leave_log, cookie, users_db, sreq>>

\* json.load of the file while another request has it open for writing: the
\* file is empty or partly written and json.load raises; the except clause
\* flashes the error.
leave_load_raises(t, form) ==
    /\ lreq[t].pc = "idle"
    /\ leaves.exists
    /\ Rewriting(t)
    /\ resp' = LeaveRedirect(IF form.action = "submit"
                             THEN "Error submitting leave request"
                             ELSE "Error processing leave request")
    /\ UNCHANGED <<file, upl, view, analytics, leaves, lreq, leave_log, cookie, users_db, sreq>>

\* with open(leave_file, 'w') as f: json.dump(leaves, f), then flash, the
\* log line and the redirect.
leave_write(t) ==
    /\ lreq[t].pc = "loaded"
    /\ leaves' = [exists |-> TRUE, text |-> json_dump(lreq[t].leaves)]
    /\ leave_log' = IF lreq[t].form.action = "submit"
                    THEN Append(leave_log, lreq[t].form.student_name)
                    ELSE leave_log
    /\ resp' = LeaveRedirect(IF lreq[t].form.action = "submit"
                             THEN "Leave request submitted"
                             ELSE "Leave request has been " \o lreq[t].form.action \o "d")
    /\ lreq' = [lreq EXCEPT ![t] = Idle]
    /\ UNCHANGED <<file, upl, view, analytics, cookie, users_db, sreq>>

\* GET /leave
leave_get ==
    /\ resp' = [op |-> "leave", status |-> "render",
                leaves |-> IF leaves.exists THEN json_load(leaves.text) ELSE <<>>]
    /\ UNCHANGED <<file, upl, view, analytics, leaves, lreq, leave_log, cookie, users_db, sreq>>

\* GET /leave while another request has the file open for writing: json.load
\* raises, the error is flashed and the page shows no request.
leave_get_raises ==
    /\ leaves.exists
    /\ \E o \in LeaveIds : lreq[o].pc = "loaded"
    /\ resp' = [op |-> "leave", status |-> "render", leaves |-> <<>>,
                flash |-> "Error loading leave requests"]
    /\ UNCHANGED <<file, upl, view, analytics, leaves, lreq, leave_log, cookie, users_db, sreq>>

NextLeave ==
    \/ \E t \in LeaveIds, form \in LeaveForms : leave_load(t, form)
    \/ \E t \in LeaveIds, form \in LeaveForms : leave_load_raises(t, form)
    \/ \E t \in LeaveIds : leave_write(t)
    \/ leave_get
    \/ leave_get_raises

SpecLeave == InitLeave /\ [][NextLeave]_vars

(***************************************************************************)
(* Sessions (login, register, logout, login_required, set_theme of         *)
(* app.py).  No session interface is configured, so Flask keeps the        *)
(* session in a signed cookie of the browser: a request carries the cookie *)
(* the browser held when it sent the request, the handler works on the     *)
(* session opened from that cookie, and the response sets the cookie again *)
(* when the handler modified the session.  The browser may have several    *)
(* requests in flight; a request is the steps send, serve (the decorator   *)
(* and the whole handler) and receive.                                     *)
(***************************************************************************)
Usernames == {"ann"}

Passwords == {"pw", "guess"}

Themes == {"dark", "blue"}

RequestIds == 1..MaxInFlight

\* The routes decorated with @login_required.
GuardedRoutes ==
    {"index", "dashboard", "enhancement_details", "student", "leave",
     "export_leave_pdf", "calendar_view"}

SessionViews ==
    {[kind |-> "dashboard"], [kind |-> "calendar_view"], [kind |-> "index"],
     [kind |-> "enhancement_details", arg |-> "monthly_trend"],
     [kind |-> "student", arg |-> "Alice"]}

LeaveForm ==
    [action |-> "submit", student_name |-> "Alice", leave_date |-> "2024-03-01",
     leave_type |-> "sick", reason |-> "flu"]

SessionRequests ==
    {[route |-> "login", method |-> "GET"], [route |-> "logout", method |-> "GET"]}
    \cup {[route |-> "login", method |-> "POST", username |-> u, password |-> p] :
             u \in Usernames, p \in Passwords}
    \cup {[route |-> "register", method |-> "POST", username |-> u, password |-> "pw",
           confirm_password |-> c, role |-> "teacher"] : u \in Usernames, c \in Passwords}
    \cup {[route |-> "set_theme", method |-> "GET", theme |-> th] : th \in Themes}
    \cup {[route |-> "index", method |-> "POST", filename |-> CsvName, table |-> t] :
             t \in UploadPool}
    \cup {[route |-> v.kind, method |-> "GET", v |-> v] : v \in SessionViews}
    \cup {[route |-> "leave", method |-> m, form |-> LeaveForm] : m \in {"GET", "POST"}}
    \cup {[route |-> "export_leave_pdf", method |-> "GET"]}

\* session[key] = value
SetItem(s, key, value) ==
    [k \in (DOMAIN s) \cup {key} |-> IF k = key THEN value ELSE s[k]]

\* flash(message, category): the message joins the list session['_flashes'].
\* Of the list only the fact that it holds a message is kept.
flash(s, category) == SetItem(s, "_flashes", TRUE)

\* werkzeug.security: a hash checks against the password it was made from.
generate_password_hash(password) == <<"hash", password>>

check_password_hash(pwhash, password) == pwhash = generate_password_hash(password)

\* SELECT * FROM users WHERE username = ?, then fetchone()
fetchone(db, username) ==
    LET hits == {i \in 1..Len(db) : db[i].username = username}
    IN IF hits = {} THEN NoneValue ELSE db[FirstIn(hits)]

InitSession ==
    /\ file \in {NoFile, GoodTable}
    /\ upl = <<>>
    /\ view = <<>>
    /\ resp = NoResp
    /\ analytics = NoneValue
    /\ leaves = NoFile
    /\ lreq = <<>>
    /\ leave_log = <<>>
    /\ cookie = <<>>
    /\ users_db = <<>>
    /\ sreq = [t \in RequestIds |-> Idle]

\* The browser sends a request, on its first free connection, with the
\* cookie it holds; Flask opens the session of the request from that cookie.
send(t, rq) ==
    /\ sreq[t].pc = "idle"
    /\ \A o \in 1..(t - 1) : sreq[o].pc # "idle"
    /\ sreq' = [sreq EXCEPT ![t] = [pc |-> "sent", rq |-> rq, session |-> cookie]]
    /\ UNCHANGED <<file, upl, view, resp, analytics, leaves, lreq, leave_log,
                   cookie, users_db>>

\* The end of a request: the response on its way to the browser, and
\* save_session, which sets the cookie when the session was modified.
Served(t, response, s, modified) ==
    /\ resp' = resp
    /\ sreq' = [sreq EXCEPT ![t] = [pc |-> "served", route |-> sreq[t].rq.route,
                                    response |-> response, session |-> s,
                                    set_cookie |-> modified]]

LoginSuccessful == Redirect("login", "index", "Login successful!")

login(t) ==
    /\ sreq[t].pc = "sent" /\ sreq[t].rq.route = "login"
    /\ LET rq == sreq[t].rq
           s == sreq[t].session
       IN IF rq.method = "POST"
          THEN LET user == fetchone(users_db, rq.username)
               IN IF user # NoneValue /\ check_password_hash(user.password, rq.password)
                  THEN Served(t, LoginSuccessful,
                              flash(SetItem(SetItem(SetItem(s, "user_id", user.id),
                                                    "username", user.username),
                                            "role", user.role), "success"),
                              TRUE)
                  ELSE Served(t, [op |-> "login", status |-> "render",
                                  flash |-> "Invalid username or password"],
                              flash(s, "error"), TRUE)
          ELSE Served(t, [op |-> "login", status |-> "render"], s, FALSE)
    /\ UNCHANGED <<file, upl, view, analytics, leaves, lreq, leave_log, cookie, users_db>>

register(t) ==
    /\ sreq[t].pc = "sent" /\ sreq[t].rq.route = "register"
    /\ LET rq == sreq[t].rq
           s == sreq[t].session
       IN IF rq.password # rq.confirm_password
          THEN /\ Served(t, Redirect("register", "register", "Passwords do not match"),
                         flash(s, "error"), TRUE)
               /\ users_db' = users_db
          ELSE IF fetchone(users_db, rq.username) # NoneValue
          THEN /\ Served(t, [op |-> "register", status |-> "render",
                             flash |-> "Username already exists"],
                         flash(s, "error"), TRUE)
               /\ users_db' = users_db
          ELSE /\ Served(t, Redirect("register", "login",
                                     "Registration successful! Please login."),
                         flash(s, "success"), TRUE)
               /\ users_db' = Append(users_db,
                                     [id |-> Len(users_db) + 1, username |-> rq.username,
                                      password |-> generate_password_hash(rq.password),
                                      role |-> rq.role])
    /\ UNCHANGED <<file, upl, view, analytics, leaves, lreq, leave_log, cookie>>

\* session.clear(), then the flash.
logout(t) ==
    /\ sreq[t].pc = "sent" /\ sreq[t].rq.route = "logout"
    /\ Served(t, Redirect("logout", "login", "You have been logged out"),
              flash(<<>>, "info"), TRUE)
    /\ UNCHANGED <<file, upl, view, analytics, leaves, lreq, leave_log, cookie, users_db>>

set_theme(t) ==
    /\ sreq[t].pc = "sent" /\ sreq[t].rq.route = "set_theme"
    /\ LET theme == sreq[t].rq.theme
           s == sreq[t].session
       IN IF theme \in {"light", "dark"}
          THEN Served(t, Redirect("set_theme", "index", ""), SetItem(s, "theme", theme), TRUE)
          ELSE Served(t, Redirect("set_theme", "index", ""), s, FALSE)
    /\ UNCHANGED <<file, upl, view, analytics, leaves, lreq, leave_log, cookie, users_db>>

\* if 'user_id' not in session
login_required(s) == "user_id" \in DOMAIN s

\* The decorator's refusal, of any decorated route.
login_required_redirect(t) ==
    /\ sreq[t].pc = "sent" /\ sreq[t].rq.route \in GuardedRoutes
    /\ ~login_required(sreq[t].session)
    /\ Served(t, Redirect(sreq[t].rq.route, "login", "Please login first"),
              flash(sreq[t].session, "error"), TRUE)
    /\ UNCHANGED <<file, upl, view, analytics, leaves, lreq, leave_log, cookie, users_db>>

\* A handler that flashed left the message in the session.
Flashed(r) == IF "flash" \in DOMAIN r THEN r.flash # "" ELSE r.status = "redirect"

AfterHandler(t, r, category) ==
    IF Flashed(r) THEN Served(t, r, flash(sreq[t].session, category), TRUE)
    ELSE Served(t, r, sreq[t].session, FALSE)

\* POST / with a file, served without another upload in between.
session_index_post(t) ==
    /\ sreq[t].pc = "sent" /\ sreq[t].rq.route = "index" /\ sreq[t].rq.method = "POST"
    /\ login_required(sreq[t].session)
    /\ LET table == sreq[t].rq.table
           is_valid == validate_csv(table)
           stats == generate_graphs_and_stats(table)
       IN IF ~is_valid.ok
          THEN /\ file' = NoFile
               /\ AfterHandler(t, Redirect("index", "index", is_valid.kind), "error")
          ELSE /\ file' = table
               /\ IF stats.none
                  THEN AfterHandler(t, Redirect("index", "index",
                                                "Error: Could not process attendance data"),
                                    "error")
                  ELSE AfterHandler(t, [op |-> "index", status |-> "render", stats |-> stats,
                                        flash |-> "CSV uploaded and graphs updated successfully!"],
                                    "success")
    /\ UNCHANGED <<upl, view, analytics, leaves, lreq, leave_log, cookie, users_db>>

\* dashboard, enhancement_details, student, calendar_view and GET
\* /?data=loaded: the os.path.exists test and the body.
session_view(t) ==
    /\ sreq[t].pc = "sent" /\ sreq[t].rq.method = "GET"
    /\ sreq[t].rq.route \in GuardedRoutes \ {"leave", "export_leave_pdf"}
    /\ login_required(sreq[t].session)
    /\ LET v == sreq[t].rq.v
       IN AfterHandler(t, IF file.exists THEN ViewResponse(v, file)
                          ELSE IF v.kind = "index"
                          THEN [op |-> "index", status |-> "render", stats |-> NoneValue,
                                loaded |-> NoFile]
                          ELSE [op |-> v.kind, status |-> "redirect", to |-> "index",
                                flash |-> "Please upload attendance data first",
                                loaded |-> NoFile],
                       "error")
    /\ UNCHANGED <<file, upl, view, analytics, leaves, lreq, leave_log, cookie, users_db>>

\* POST /leave with action submit, served without another write in between.
session_leave_post(t) ==
    /\ sreq[t].pc = "sent" /\ sreq[t].rq.route = "leave" /\ sreq[t].rq.method = "POST"
    /\ login_required(sreq[t].session)
    /\ Len(leave_log) < MaxLeaves
    /\ LET form == sreq[t].rq.form
           d == IF leaves.exists THEN json_load(leaves.text) ELSE <<>>
       IN /\ leaves' = [exists |-> TRUE, text |-> json_dump(submitted(d, form))]
          /\ leave_log' = Append(leave_log, form.student_name)
          /\ AfterHandler(t, LeaveRedirect("Leave request submitted"), "success")
    /\ UNCHANGED <<file, upl, view, analytics, lreq, cookie, users_db>>

\* GET /leave and GET /leave/export/pdf: both load leaves.json.
session_leave_get(t) ==
    /\ sreq[t].pc = "sent" /\ sreq[t].rq.method = "GET"
    /\ sreq[t].rq.route \in {"leave", "export_leave_pdf"}
    /\ login_required(sreq[t].session)
    /\ AfterHandler(t, [op |-> sreq[t].rq.route,
                        status |-> IF sreq[t].rq.route = "leave" THEN "render" ELSE "send_file",
                        leaves |-> IF leaves.exists THEN json_load(leaves.text) ELSE <<>>],
                    "error")
    /\ UNCHANGED <<file, upl, view, analytics, leaves, lreq, leave_log, cookie, users_db>>

\* The browser takes the response: a Set-Cookie header replaces its cookie.
receive(t) ==
    /\ sreq[t].pc = "served"
    /\ cookie' = IF sreq[t].set_cookie THEN sreq[t].session ELSE cookie
    /\ sreq' = [sreq EXCEPT ![t] = Idle]
    /\ UNCHANGED <<file, upl, view, resp, analytics, leaves, lreq, leave_log, users_db>>

NextSession ==
    \/ \E t \in RequestIds, rq \in SessionRequests : send(t, rq)
    \/ \E t \in RequestIds : login(t)
    \/ \E t \in RequestIds : register(t)
    \/ \E t \in RequestIds : logout(t)
    \/ \E t \in RequestIds : set_theme(t)
    \/ \E t \in RequestIds : login_required_redirect(t)
    \/ \E t \in RequestIds : session_index_post(t)
    \/ \E t \in RequestIds : session_view(t)
    \/ \E t \in RequestIds : session_leave_post(t)
    \/ \E t \in RequestIds : session_leave_get(t)
    \/ \E t \in RequestIds : receive(t)

SpecSession == InitSession /\ [][NextSession]_vars

(***************************************************************************)
(* Properties.  They are stated on the stored table as written in the      *)
(* file, independently of the operators above.                             *)
(***************************************************************************)
\* The marks P and A in either letter case, and the empty field.
LegalMarks == {"P", "p", "A", "a", ""}

DateCols(f) == 2..Len(f.header)

RowIds(f) == 1..Len(f.rows)

HasIllegalCell(f) ==
    \E r \in RowIds(f) : \E c \in DateCols(f) : f.rows[r][c] \notin LegalMarks

\* The header is Name followed by one or more distinct dates that parse.
ValidHeader(f) ==
    /\ Len(f.header) >= 2
    /\ f.header[1] = NameHdr
    /\ \A c \in DateCols(f) : ~strptime(f.header[c]).raised
    /\ Injective(f.header)

Validated == resp.op = "validate_csv"

\* C1: validate_csv returns a failure for every table in which some cell of a
\* date column is, letter case aside, neither P nor A nor empty.
C1_IllegalCellRejected ==
    Validated /\ HasIllegalCell(file) => ~resp.res.ok

C1_Witness ==
    /\ Validated
    /\ ValidHeader(file)
    /\ \E r \in RowIds(file) : \E c \in DateCols(file) : file.rows[r][c] = "X"
    /\ ~resp.res.ok
    /\ resp.res.kind = "Invalid attendance values in column"

\* C2: a table with a valid header whose cells are P or A in any letter case,
\* empty or blank is accepted by validate_csv, and reading the data of any of
\* its students does not raise.
C2_LegalTableAccepted ==
    LET legal == /\ ValidHeader(file)
                 /\ \A r \in RowIds(file) : \A c \in DateCols(file) :
                        file.rows[r][c] \in LegalMarks \cup {" "}
    IN /\ Validated /\ legal => resp.res.ok
       /\ (/\ resp.op = "get_student_data"
           /\ legal
           /\ \E r \in RowIds(file) : file.rows[r][1] = resp.arg)
          => ~resp.res.raised

\* C3: validate_csv returns a failure for every table whose first column is
\* not named Name, also when a later column is named Name.
C3_FirstColumnNotName ==
    Validated /\ Len(file.header) >= 1 /\ file.header[1] # NameHdr => ~resp.res.ok

C3_Witness ==
    /\ Validated
    /\ Len(file.header) >= 2
    /\ file.header[1] # NameHdr
    /\ \E c \in DateCols(file) : file.header[c] = NameHdr
    /\ ~resp.res.ok

\* The columns after the first, under the names read_csv gives them, that do
\* not parse as a date.
OffendingCols(f) == {c \in DateCols(f) : strptime(Mangle(f.header)[c]).raised}

FirstOffending(f) == CHOOSE c \in OffendingCols(f) : \A z \in OffendingCols(f) : c <= z

NamesFirstOffending(f, res) ==
    /\ res.kind = "Invalid date format in column"
    /\ res.col = Mangle(f.header)[FirstOffending(f)]

\* C4 as stated: whenever some date-column header does not parse, validate_csv
\* fails with a message that names the first such column.
C4_MessageAlwaysNamesDateColumn ==
    Validated /\ OffendingCols(file) # {}
        => ~resp.res.ok /\ NamesFirstOffending(file, resp.res)

\* C4, amended: whenever some date-column header does not parse, validate_csv
\* fails; if the table has a column named Name, the message names the first
\* such column, whatever the cells hold.
C4_DateHeaderRejected ==
    Validated /\ OffendingCols(file) # {}
        => /\ ~resp.res.ok
           /\ (\E c \in 1..Len(file.header) : file.header[c] = NameHdr)
                  => NamesFirstOffending(file, resp.res)

C4_Witness ==
    /\ Validated
    /\ file.header = <<NameHdr, Mon0101, SlashDate>>
    /\ Len(file.rows) = 1 /\ file.rows[1][2] = "X"
    /\ resp.res.col = SlashDate

ViewOps == {"dashboard", "enhancement_details", "student", "calendar_view", "index"}

\* C5: a page answered by a view request is never computed from a stored table
\* that validate_csv refuses.
C5_ViewsLoadOnlyValidated ==
    (resp.op \in ViewOps /\ "loaded" \in DOMAIN resp /\ resp.loaded.exists)
        => validate_csv(resp.loaded).ok

\* The bucket of a date header: its first seven characters YYYY-MM, or the
\* weekday the calendar gives the date.
BucketOf(fmt, h) ==
    IF fmt = "month" THEN SubSeq(h, 1, 7)
    ELSE CASE h = Mon0101 -> "Monday"
           [] h = Tue0102 -> "Tuesday"
           [] h = Mon0205 -> "Monday"

PresentMarks == {"P", "p"}

BucketCols(f, fmt, k) == {c \in DateCols(f) : BucketOf(fmt, f.header[c]) = k}

BucketPresent(f, fmt, k) ==
    Cardinality({rc \in RowIds(f) \X BucketCols(f, fmt, k) :
                    f.rows[rc[1]][rc[2]] \in PresentMarks})

BucketTotal(f, fmt, k) == Len(f.rows) * Cardinality(BucketCols(f, fmt, k))

\* The map d holds one entry per bucket of a date of the table and no other,
\* each with rate = present/total*100.
BucketRatesOf(f, fmt, d) ==
    /\ {d[i].key : i \in 1..Len(d)} = {BucketOf(fmt, f.header[c]) : c \in DateCols(f)}
    /\ \A i, j \in 1..Len(d) : d[i].key = d[j].key => i = j
    /\ \A i \in 1..Len(d) :
          /\ d[i].val.den > 0
          /\ d[i].val.num * BucketTotal(f, fmt, d[i].key)
                = 100 * BucketPresent(f, fmt, d[i].key) * d[i].val.den

RowPresentCells(f, r) == Cardinality({c \in DateCols(f) : f.rows[r][c] \in PresentMarks})

NameUnique(f, r) == \A r2 \in RowIds(f) : f.rows[r2][1] = f.rows[r][1] => r2 = r

StoredIds(f) ==
    LET nc == CHOOSE c \in 1..Len(f.header) : f.header[c] = NameHdr
    IN {f.rows[r][nc] : r \in RowIds(f)} \ {""}

HasNameColumn(f) == \E c \in 1..Len(f.header) : f.header[c] = NameHdr

\* C8: get_student_data returns None, without raising, exactly when the name
\* asked for equals no stored identifier, letter case included; the route
\* student then answers with a redirect to the index page.
C8_NotFound ==
    /\ (resp.op = "get_student_data" /\ HasNameColumn(file))
        => ((~resp.res.raised /\ resp.res.val.none) <=> resp.arg \notin StoredIds(file))
    /\ (resp.op = "route student" /\ HasNameColumn(file) /\ resp.arg \notin StoredIds(file))
        => resp.status = "redirect" /\ resp.to = "index" /\ resp.flash = "Student not found"

C8_Witness ==
    /\ resp.op = "get_student_data"
    /\ resp.arg = "alice"
    /\ HasNameColumn(file)
    /\ StoredIds(file) = {"Alice"}
    /\ Len(file.header) = 3
    /\ ~resp.res.raised
    /\ resp.res.val.none

TrendsOf(f) == get_student_trends(AttendanceAnalytics(f).val)

\* C9: on a table validate_csv accepts, get_student_data for a stored name
\* returns the attendance_rate, total_present and total_absent that
\* get_student_trends holds under that name.
C9_DetailEqualsTrend ==
    (/\ resp.op = "get_student_data"
     /\ validate_csv(file).ok
     /\ resp.arg \in StoredIds(file))
        => /\ ~resp.res.raised
           /\ ~TrendsOf(file).raised
           /\ LET e == DictGet(TrendsOf(file).val, resp.arg)
              IN /\ resp.res.val.attendance_rate = e.attendance_rate
                 /\ resp.res.val.total_present = e.total_present
                 /\ resp.res.val.total_absent = e.total_absent

RECURSIVE SumOver(_, _)
SumOver(d, field) ==
    IF Len(d) = 0 THEN 0 ELSE Head(d).val[field] + SumOver(Tail(d), field)

\* C10: in the detail get_student_data returns for a student, the present
\* counts of monthly_performance sum to the total_present get_student_trends
\* holds for that student, the totals sum to the number of dates, and each
\* month has present + absent = total.
C10_MonthlySumsToTrend ==
    (resp.op = "get_student_data" /\ ~resp.res.raised /\ ~resp.res.val.none)
        => LET mp == resp.res.val.monthly_performance
           IN /\ ~TrendsOf(file).raised
              /\ SumOver(mp, "present") = DictGet(TrendsOf(file).val, resp.arg).total_present
              /\ SumOver(mp, "total") = Len(file.header) - 1
              /\ \A i \in 1..Len(mp) : mp[i].val.present + mp[i].val.absent = mp[i].val.total

\* present/total of the bucket k, compared by cross-multiplication.
BucketLess(f, fmt, k1, k2) ==
    BucketPresent(f, fmt, k1) * BucketTotal(f, fmt, k2)
        < BucketPresent(f, fmt, k2) * BucketTotal(f, fmt, k1)

\* The bucket of the first date column, in the order of the header, whose
\* bucket no other bucket exceeds (best = TRUE) or is below (best = FALSE).
FirstExtremeBucket(f, fmt, best) ==
    LET ext == {c \in DateCols(f) : \A c2 \in DateCols(f) :
                   IF best
                   THEN ~BucketLess(f, fmt, BucketOf(fmt, f.header[c]), BucketOf(fmt, f.header[c2]))
                   ELSE ~BucketLess(f, fmt, BucketOf(fmt, f.header[c2]), BucketOf(fmt, f.header[c]))}
        c1 == CHOOSE c \in ext : \A z \in ext : c <= z
    IN BucketOf(fmt, f.header[c1])

Summarised == resp.op = "get_summary_statistics" /\ ~resp.res.raised

\* C11: in what get_summary_statistics returns, most_consistent_day and
\* least_consistent_day are the weekdays of maximum and minimum rate and
\* best_month and worst_month the months of maximum and minimum rate; among
\* tied buckets each is the one whose first date column comes first in the
\* header, whatever the dates are.
C11_ExtremeBuckets ==
    Summarised =>
        /\ resp.res.val.most_consistent_day = FirstExtremeBucket(file, "weekday", TRUE)
        /\ resp.res.val.least_consistent_day = FirstExtremeBucket(file, "weekday", FALSE)
        /\ resp.res.val.best_month = FirstExtremeBucket(file, "month", TRUE)
        /\ resp.res.val.worst_month = FirstExtremeBucket(file, "month", FALSE)

C11_Witness ==
    /\ Summarised
    /\ file.header = <<NameHdr, Mon0205, Mon0101>>
    /\ Len(file.rows) = 2
    /\ file.rows[1][2] = "P" /\ file.rows[1][3] = "A"
    /\ file.rows[2][2] = "A" /\ file.rows[2][3] = "p"
    /\ resp.res.val.best_month = SubSeq(Mon0205, 1, 7)
    /\ resp.res.val.worst_month = SubSeq(Mon0205, 1, 7)

Min(a, b) == IF a < b THEN a ELSE b

\* The listing s holds one (name, rate) per row of the table, by rate
\* descending, rows of equal rate in the order of the table: the row r stands
\* at the position 1 + (rows of greater rate) + (earlier rows of equal rate).
IsRanking(f, s) ==
    /\ Len(s) = Len(f.rows)
    /\ \A r \in RowIds(f) :
          LET above == {q \in RowIds(f) :
                          \/ RowPresentCells(f, q) > RowPresentCells(f, r)
                          \/ RowPresentCells(f, q) = RowPresentCells(f, r) /\ q < r}
              e == s[1 + Cardinality(above)]
          IN /\ e.name = f.rows[r][1]
             /\ e.rate.num * (Len(f.header) - 1) = 100 * RowPresentCells(f, r) * e.rate.den

Ranked == resp.op = "graphs.generate_graphs_and_stats" /\ ~resp.res.none

\* C12: top_3 and bottom_3 of generate_graphs_and_stats (graphs.py) are the
\* first three and the last three entries of the listing of all students by
\* attendance_rate descending (equal rates in row order): top_3 has length
\* min(3, students), both have non-increasing rates, and with three students
\* or fewer they are equal.
C12_TopBottom ==
    Ranked =>
        LET t == resp.res.top_3
            b == resp.res.bottom_3
            n == Len(file.rows)
        IN /\ Len(t) = Min(3, n)
           /\ \E s \in [1..n -> {t[i] : i \in 1..Len(t)} \cup {b[i] : i \in 1..Len(b)}] :
                 /\ IsRanking(file, s)
                 /\ t = SubSeq(s, 1, Min(3, n))
                 /\ b = SubSeq(s, n + 1 - Min(3, n), n)
           /\ \A i \in 1..(Len(t) - 1) : ~FracLess(t[i].rate, t[i + 1].rate)
           /\ \A i \in 1..(Len(b) - 1) : ~FracLess(b[i].rate, b[i + 1].rate)
           /\ n <= 3 => t = b

\* The number of P/p cells of the whole table.
TablePresentCells(f) ==
    Cardinality({rc \in RowIds(f) \X DateCols(f) : f.rows[rc[1]][rc[2]] \in PresentMarks})

\* C13: for a table with a student and a date, the average_attendance of
\* get_summary_statistics is the sum of the attendance rates of all student
\* rows divided by the number of students (total_students): with d dates
\* and n rows, 100 * (P/p cells of the table) / (d * n).
C13_AverageOverRows ==
    (Summarised /\ Len(file.rows) >= 1 /\ Len(file.header) >= 2)
        => LET avg == resp.res.val.average_attendance
           IN /\ resp.res.val.total_students = Len(file.rows)
              /\ "num" \in DOMAIN avg
              /\ avg.num * (Len(file.header) - 1) * Len(file.rows)
                    = 100 * TablePresentCells(file) * avg.den

\* The header is Name followed by distinct dates that parse, possibly none.
DatasetHeader(f) ==
    /\ Len(f.header) >= 1
    /\ f.header[1] = NameHdr
    /\ \A c \in DateCols(f) : ~strptime(f.header[c]).raised
    /\ Injective(f.header)

AggregateOps ==
    {"get_monthly_attendance", "get_attendance_patterns", "get_student_trends",
     "get_summary_statistics"}

\* C14: on a dataset without students or without dates,
\* get_monthly_attendance, get_attendance_patterns, get_student_trends and
\* get_summary_statistics return and do not raise.
C14_DegenerateReturns ==
    (/\ resp.op \in AggregateOps
     /\ DatasetHeader(file)
     /\ (Len(file.rows) = 0 \/ Len(file.header) = 1))
        => ~resp.res.raised

ColumnPresentCells(f, c) == Cardinality({r \in RowIds(f) : f.rows[r][c] \in PresentMarks})

\* x is p/t*100 rounded to one decimal, given in tenths: |10*x - 1000*p/t| <= 1/2.
IsRoundedTenths(x, p, t) ==
    /\ 2 * (x * t - 1000 * p) <= t
    /\ 2 * (1000 * p - x * t) <= t

\* C15: for a dataset with a student, the calendar_data that calendar_view
\* computes has an entry for every date column, with present_count = number
\* of P/p cells of the column, total_students = number of students and
\* attendance_percentage = present_count/total_students*100 rounded to one
\* decimal.
C15_CalendarSummary ==
    (resp.op = "route calendar_view" /\ DatasetHeader(file) /\ Len(file.rows) >= 1)
        => /\ resp.status = "render"
           /\ \A c \in DateCols(file) :
                 \E i \in 1..Len(resp.calendar_data) :
                    LET e == resp.calendar_data[i]
                    IN /\ e.key = file.header[c]
                       /\ e.val.present_count = ColumnPresentCells(file, c)
                       /\ e.val.total_students = Len(file.rows)
                       /\ IsRoundedTenths(e.val.attendance_percentage.tenths,
                                          ColumnPresentCells(file, c), Len(file.rows))

HasUnmarked(f) == \E r \in RowIds(f) : \E c \in DateCols(f) : f.rows[r][c] = ""

\* A dataset with students whose cells are P or A in either case, or empty.
MarkedDataset(f) ==
    /\ ValidHeader(f)
    /\ Len(f.rows) >= 1
    /\ ~HasIllegalCell(f)

FirstRowOf(f, name) ==
    CHOOSE r \in RowIds(f) : f.rows[r][1] = name /\ \A q \in RowIds(f) : f.rows[q][1] = name => r <= q

\* C16: on a dataset with empty cells no method of the analytics raises, and
\* the detail of a student with an empty cell counts that cell, per month, in
\* total and in absent and not in present.
C16_UnmarkedNoRaise ==
    (/\ resp.op \in AggregateOps \cup {"get_student_data"}
     /\ MarkedDataset(file)
     /\ HasUnmarked(file))
        => /\ ~resp.res.raised
           /\ (resp.op = "get_student_data" /\ resp.arg \in StoredIds(file))
                 => LET r == FirstRowOf(file, resp.arg)
                        mp == resp.res.val.monthly_performance
                    IN \A i \in 1..Len(mp) :
                          LET cols == BucketCols(file, "month", mp[i].key)
                              p == Cardinality({c \in cols : file.rows[r][c] \in PresentMarks})
                          IN /\ mp[i].val.total = Cardinality(cols)
                             /\ mp[i].val.present = p
                             /\ mp[i].val.absent = Cardinality(cols) - p

\* The students, dates and cells of an object, as the table was written.
SameDataset(an, f) ==
    /\ an.student_names = [r \in RowIds(f) |-> f.rows[r][1]]
    /\ an.dates = [j \in 1..(Len(f.header) - 1) |-> f.header[j + 1]]
    /\ an.attendance_data =
          [r \in RowIds(f) |-> [j \in 1..(Len(f.header) - 1) |->
              IF f.rows[r][j + 1] = "" THEN NaN ELSE f.rows[r][j + 1]]]

Completes(u) == upl[u].pc # "idle" /\ upl'[u].pc = "idle"

\* C18: when an upload request completes, the stored file is the uploaded
\* table if validate_csv accepts that table, and there is no stored file if
\* it does not.
C18_UploadOutcome ==
    [][\A u \in UploadIds :
          Completes(u) => IF validate_csv(upl[u].table).ok
                          THEN file' = upl[u].table
                          ELSE file' = NoFile]_vars

\* The leave records as a reader of data/leaves.json gets them.
Stored(l) == IF l.exists THEN json_load(l.text) ELSE <<>>

ListOf(d, k) == IF k \in Keys(d) THEN DictGet(d, k) ELSE <<>>

\* The key under which JSON holds the list of the student named in a form.
JsonKey(name) == IF name = PyNone THEN "null" ELSE name

LeaveStatuses == {"pending", "approved", "rejected"}

\* The list new is old with the status of its first request of that date,
\* if any, set to status, and nothing else changed.
FirstMatchDecided(old, new, leave_date, status) ==
    /\ Len(new) = Len(old)
    /\ \A i \in 1..Len(old) :
          IF old[i].date = leave_date /\ \A q \in 1..(i - 1) : old[q].date # leave_date
          THEN new[i] = [old[i] EXCEPT !.status = status]
          ELSE new[i] = old[i]

\* What the request of the form did to the records S, giving S2.
LeaveEffect(form, S, S2) ==
    LET k == JsonKey(form.student_name)
    IN /\ \A k2 \in (Keys(S) \cup Keys(S2)) \ {k} : ListOf(S2, k2) = ListOf(S, k2)
       /\ IF form.action = "submit"
          THEN ListOf(S2, k) = Append(ListOf(S, k),
                                     [date |-> form.leave_date, type |-> form.leave_type,
                                      reason |-> form.reason, status |-> "pending"])
          ELSE FirstMatchDecided(ListOf(S, k), ListOf(S2, k), form.leave_date,
                                 IF form.action = "approve" THEN "approved" ELSE "rejected")

\* Every request of S is in S2, at its place, with its date, type and reason.
NothingRemoved(S, S2) ==
    \A k \in Keys(S) :
        /\ Len(ListOf(S2, k)) >= Len(ListOf(S, k))
        /\ \A i \in 1..Len(ListOf(S, k)) :
              /\ ListOf(S2, k)[i].date = ListOf(S, k)[i].date
              /\ ListOf(S2, k)[i].type = ListOf(S, k)[i].type
              /\ ListOf(S2, k)[i].reason = ListOf(S, k)[i].reason

\* C19: the write of a submission appends one pending request to the list of
\* the named student, the write of an approve or reject sets the status of
\* the first request of that student and date and nothing else; no step
\* removes a request or changes its date, type or reason; every stored
\* status is pending, approved or rejected.
C19_LeaveUpdates ==
    /\ [][/\ \A t \in LeaveIds :
               (lreq[t].pc = "loaded" /\ lreq'[t].pc = "idle")
                   => LeaveEffect(lreq[t].form, Stored(leaves), Stored(leaves'))
           /\ NothingRemoved(Stored(leaves), Stored(leaves'))]_vars
    /\ [](\A i \in 1..Len(Stored(leaves)) :
             \A j \in 1..Len(Stored(leaves)[i].val) :
                Stored(leaves)[i].val[j].status \in LeaveStatuses)

Occurs(seq, x) == Cardinality({i \in 1..Len(seq) : seq[i] = x})

\* C20: when no request to /leave is in progress, the stored records hold,
\* for every student name, at least as many requests as submissions for that
\* name have completed with the success message and its log line.
C20_NoLostSubmission ==
    (\A t \in LeaveIds : lreq[t].pc = "idle")
        => \A name \in LeaveNames \ {PyNone} :
              Len(ListOf(Stored(leaves), JsonKey(name))) >= Occurs(leave_log, name)

(***************************************************************************)
(* Sessions                                                                *)
(***************************************************************************)
LoggedIn(s) == "user_id" \in DOMAIN s

Serves(t) == sreq[t].pc = "sent" /\ sreq'[t].pc = "served"

Receives(t) == sreq[t].pc = "served" /\ sreq'[t].pc = "idle"

\* The response was computed from the attendance file or the leave file.
ReadsData(r) == "loaded" \in DOMAIN r \/ "stats" \in DOMAIN r \/ "leaves" \in DOMAIN r

\* A request to a decorated route reads or changes data only with a session
\* that holds user_id.
GuardedAccess ==
    \A t \in RequestIds :
        (/\ Serves(t)
         /\ sreq[t].rq.route \in GuardedRoutes
         /\ file' # file \/ leaves' # leaves \/ ReadsData(sreq'[t].response))
            => LoggedIn(sreq[t].session)

\* user_id comes into the browser's session only with the response of a
\* login whose password check succeeded.
EntersByLogin ==
    (~LoggedIn(cookie) /\ LoggedIn(cookie'))
        => \E t \in RequestIds :
               /\ Receives(t)
               /\ sreq[t].route = "login"
               /\ sreq[t].response = LoginSuccessful

\* The response of logout leaves the browser's session without user_id.
LogoutClears ==
    \A t \in RequestIds :
        (Receives(t) /\ sreq[t].route = "logout") => ~LoggedIn(cookie')

\* C21: in every reachable state the routes index, dashboard,
\* enhancement_details, student, leave, export_leave_pdf and calendar_view
\* read or change attendance and leave data only when the session holds a
\* user_id; user_id enters a session only through a login whose password
\* check succeeded, and after logout the session holds no user_id until the
\* next successful login.
C21_SessionGuard ==
    /\ [][GuardedAccess]_vars
    /\ [][EntersByLogin]_vars
    /\ [][LogoutClears]_vars

====
